---- MODULE Spec2Model ----
\* A model of the file-backed link store of golinks (src/store.go, FileStore).
\* Strings are sequences of one-character strings, so that the record format
\* ("name link\n"), the line scanner, strings.Split and fuzz operate on
\* characters as the Go code does.
EXTENDS Integers, Sequences, FiniteSets, TLC

\* ---------------------------------------------------------------- bounds
\* Set is not taken once the order array holds MaxOrder names.
MaxOrder == 3
\* At most MaxOpens calls of Open after the first one.
MaxOpens == 1
\* SpecFile takes no Set once MaxLog Sets have written their record.
MaxLog == 2

\* ---------------------------------------------------------------- inputs
\* Names handed to Set: two that fuzz to "a" and one unrelated.
Names == { <<"a">>, <<"A", "-">>, <<"b">> }
\* Names handed to Get: those, and two more that fuzz to "a".
GetNames == Names \cup { <<"A">>, <<"a", "_">> }
\* Links handed to Set; the empty string is the tombstone.
Links == { <<>>, <<"x">>, <<"y">> }
\* The names and links SpecFile hands to Set: two names that fuzz to "a" and
\* one with a space in it.
FileNames == { <<"a">>, <<"A", "-">>, <<"a", " ", "b">> }
FileLinks == { <<>>, <<"x">> }
\* The names SpecDump hands to Set: a plain one and one with a newline in it.
LineNames == { <<"a">>, <<"a", "\n", "b">> }
\* The two files of the model: the store's log and a dump target.
Paths == { "log", "dmp" }
\* The goroutines that call the store concurrently (one per HTTP request).
Threads == { 1, 2 }
\* The names and links SpecConc hands to Set and Get, and the logs the store
\* is opened on: an empty one, and one in which "A-" and "a" hold two links.
ConcNames == { <<"a">>, <<"A", "-">> }
ConcLinks == { <<>>, <<"x">> }
ConcLogs == { <<>>, <<"A", "-", " ", "x", "\n", "a", " ", "y", "\n">> }
\* The logs SpecOpen opens: those, one with a tombstone in the middle, and one
\* whose second line is malformed.
OpenLogs ==
  ConcLogs \cup { <<"a", " ", "x", "\n", "A", "-", "\n", "b", " ", "y", "\n">>,
                  <<"a", " ", "x", "\n", "a", " ", "b", " ", "x", "\n">> }

\* ---------------------------------------------------------------- strings
RECURSIVE Replace(_, _)
\* strings.Replace(s, c, "", -1): every occurrence of the character c removed
Replace(s, c) ==
  IF s = <<>> THEN <<>>
  ELSE IF Head(s) = c THEN Replace(Tail(s), c)
       ELSE <<Head(s)>> \o Replace(Tail(s), c)

\* strings.ToLower on the letters of the model's alphabet
ToLower(s) ==
  [i \in 1..Len(s) |->
     CASE s[i] = "A" -> "a"
       [] s[i] = "B" -> "b"
       [] s[i] = "X" -> "x"
       [] s[i] = "Y" -> "y"
       [] OTHER -> s[i]]

\* a draft of fuzz that strips '-' and '_' but does not fold case
fuzz_nolower(name) == Replace(Replace(name, "-"), "_")

\* a fuzz that folds case but leaves '-' and '_' in place
fuzz_nostrip(name) == ToLower(name)

fuzz(name) == ToLower(Replace(Replace(name, "-"), "_"))

RECURSIVE SplitAt(_, _, _, _)
SplitAt(s, sep, i, cur) ==
  IF i > Len(s) THEN <<cur>>
  ELSE IF s[i] = sep THEN <<cur>> \o SplitAt(s, sep, i + 1, <<>>)
       ELSE SplitAt(s, sep, i + 1, Append(cur, s[i]))

\* strings.Split(s, sep) for a one-character separator: n separators give
\* n + 1 fields, the empty string gives one empty field
Split(s, sep) == SplitAt(s, sep, 1, <<>>)

\* bufio's dropCR: a trailing carriage return is removed from a line
dropCR(line) ==
  IF Len(line) > 0 /\ line[Len(line)] = "\r"
  THEN SubSeq(line, 1, Len(line) - 1) ELSE line

\* The tokens bufio.Scanner (ScanLines) delivers for the file content f: the
\* newline-terminated lines, then a final unterminated line if it is non-empty.
ScanLines(f) ==
  LET parts == Split(f, "\n")
      n     == Len(parts)
      kept  == IF parts[n] = <<>> THEN SubSeq(parts, 1, n - 1) ELSE parts
  IN  [i \in 1..Len(kept) |-> dropCR(kept[i])]

\* fmt.Sprintf("%s %s\n", name, link)
Record(name, link) == name \o <<" ">> \o link \o <<"\n">>

\* ---------------------------------------------------------------- cache
EmptyCache == [k \in {} |-> <<>>]

\* delete(s.cache, name)
Del(c, name) == [k \in DOMAIN c \ {name} |-> c[k]]

\* s.cache[name] = link
Put(c, name, link) ==
  [k \in DOMAIN c \cup {name} |-> IF k = name THEN link ELSE c[k]]

\* a get that looks up the normalized form first and the name itself second
get_fuzzFirst(c, fz, name) ==
  IF fz /\ fuzz(name) \in DOMAIN c THEN <<c[fuzz(name)], TRUE>>
  ELSE IF name \in DOMAIN c THEN <<c[name], TRUE>> ELSE << <<>>, FALSE >>

\* FileStore.get: <<link, ok>>
get(c, fz, name) ==
  LET ok   == name \in DOMAIN c
      link == IF ok THEN c[name] ELSE <<>>
  IN  IF (~ok \/ link = <<>>) /\ fz
      THEN IF fuzz(name) \in DOMAIN c
           THEN <<c[fuzz(name)], TRUE>> ELSE << <<>>, FALSE >>
      ELSE <<link, ok>>

\* a set that stores the empty link instead of deleting the entry
set_storeEmpty(c, fz, name, link) ==
  LET c1 == Put(c, name, link)
  IN  IF fz THEN Put(c1, fuzz(name), link) ELSE c1

\* a set whose tombstone leaves the fuzzy alias in place
set_keepAlias(c, fz, name, link) ==
  LET c1 == IF link = <<>> THEN Del(c, name) ELSE Put(c, name, link)
  IN  IF fz /\ link # <<>> THEN Put(c1, fuzz(name), link) ELSE c1

\* a set that never overwrites an entry that is already there
set_firstWins(c, fz, name, link) ==
  LET keep(d, k) == IF k \in DOMAIN d THEN d ELSE Put(d, k, link)
      c1 == IF link = <<>> THEN Del(c, name) ELSE keep(c, name)
  IN  IF fz
      THEN IF link = <<>> THEN Del(c1, fuzz(name)) ELSE keep(c1, fuzz(name))
      ELSE c1

\* a set that writes the entry of fuzz(name) with fuzzy mode off as well
set_alwaysAlias(c, fz, name, link) ==
  LET c1 == IF link = <<>> THEN Del(c, name) ELSE Put(c, name, link)
  IN  IF link = <<>> THEN Del(c1, fuzz(name)) ELSE Put(c1, fuzz(name), link)

\* FileStore.set: the cache after set(name, link)
set(c, fz, name, link) ==
  LET c1 == IF link = <<>> THEN Del(c, name) ELSE Put(c, name, link)
  IN  IF fz
      THEN IF link = <<>> THEN Del(c1, fuzz(name))
                          ELSE Put(c1, fuzz(name), link)
      ELSE c1

\* FileStore.Get: <<link, found>>
Get(c, fz, name) ==
  LET r == get(c, fz, name)
  IN  IF ~r[2] \/ r[1] = <<>> THEN << <<>>, FALSE >> ELSE <<r[1], TRUE>>

\* ---------------------------------------------------------------- Iterate
RECURSIVE IterateFrom(_, _, _, _, _, _)
\* an Iterate that ignores the ok of get and delivers every name of order
IterateFrom_noOk(o, c, fz, i, seen, bad) ==
  IF i = 0 THEN [out |-> <<>>, err |-> FALSE]
  ELSE LET next == o[i]
           g    == get(c, fz, next)
           rest == IterateFrom(o, c, fz, i - 1, seen \cup {next}, bad)
       IN  IF next \in seen THEN IterateFrom(o, c, fz, i - 1, seen, bad)
           ELSE IF next \in bad
                THEN [out |-> << <<next, g[1]>> >>, err |-> TRUE]
                ELSE [out |-> << <<next, g[1]>> >> \o rest.out,
                      err |-> rest.err]

\* an Iterate that remembers the callback's error and goes on with the loop
IterateFrom_continue(o, c, fz, i, seen, bad) ==
  IF i = 0 THEN [out |-> <<>>, err |-> FALSE]
  ELSE LET next == o[i]
           g    == get(c, fz, next)
           rest == IterateFrom(o, c, fz, i - 1, seen \cup {next}, bad)
       IN  IF next \in seen THEN IterateFrom(o, c, fz, i - 1, seen, bad)
           ELSE IF g[2]
                THEN [out |-> << <<next, g[1]>> >> \o rest.out,
                      err |-> (next \in bad) \/ rest.err]
                ELSE rest

\* The loop of FileStore.Iterate from index i down, with the names in seen
\* already visited; the callback returns an error on the names in bad.
\* out is the sequence of <<name, link>> pairs the callback was invoked on.
IterateFrom(o, c, fz, i, seen, bad) ==
  IF i = 0 THEN [out |-> <<>>, err |-> FALSE]
  ELSE LET next == o[i]
       IN  IF next \in seen
           THEN IterateFrom(o, c, fz, i - 1, seen, bad)
           ELSE LET g == get(c, fz, next)
                IN  IF g[2]
                    THEN IF next \in bad
                         THEN [out |-> << <<next, g[1]>> >>, err |-> TRUE]
                         ELSE LET rest == IterateFrom(o, c, fz, i - 1,
                                                      seen \cup {next}, bad)
                              IN  [out |-> << <<next, g[1]>> >> \o rest.out,
                                   err |-> rest.err]
                    ELSE IterateFrom(o, c, fz, i - 1, seen \cup {next}, bad)

Reverse(s) == [i \in 1..Len(s) |-> s[Len(s) + 1 - i]]

\* an Iterate that walks the order array from the oldest entry
Iterate_oldestFirst(o, c, fz, bad) ==
  IterateFrom(Reverse(o), c, fz, Len(o), {}, bad)

\* FileStore.Iterate
Iterate(o, c, fz, bad) == IterateFrom(o, c, fz, Len(o), {}, bad)

RECURSIVE Concat(_)
Concat(ss) == IF ss = <<>> THEN <<>> ELSE Head(ss) \o Concat(Tail(ss))

\* The bytes FileStore.Dump writes when nothing fails: the records of the
\* pairs Iterate delivers, in the reverse of the delivery order.
DumpContent(o, c, fz) ==
  LET out   == Iterate(o, c, fz, {}).out
      lines == [i \in 1..Len(out) |-> Record(out[i][1], out[i][2])]
  IN  Concat(Reverse(lines))

\* ---------------------------------------------------------------- replay
RECURSIVE ReplayFrom(_, _, _, _, _, _)
\* a replay that stops at a line with more than two fields and keeps the
\* store read so far
ReplayFrom_partial(lines, i, fz, c, o, h) ==
  IF i > Len(lines)
  THEN [err |-> FALSE, cache |-> c, order |-> o, hist |-> h, line |-> <<>>]
  ELSE LET split == Split(lines[i], " ")
           o1    == Append(o, split[1])
       IN  CASE Len(split) = 1 ->
                  ReplayFrom(lines, i + 1, fz, set(c, fz, split[1], <<>>), o1,
                             Append(h, <<split[1], <<>> >>))
             [] Len(split) = 2 ->
                  ReplayFrom(lines, i + 1, fz, set(c, fz, split[1], split[2]),
                             o1, Append(h, <<split[1], split[2]>>))
             [] OTHER ->
                  [err |-> FALSE, cache |-> c, order |-> o, hist |-> h,
                   line |-> <<>>]

\* The scanner loop of Open from line i on. hist is the sequence of
\* <<name, link>> arguments of the set calls made, in order; line is the line
\* the error names.
ReplayFrom(lines, i, fz, c, o, h) ==
  IF i > Len(lines)
  THEN [err |-> FALSE, cache |-> c, order |-> o, hist |-> h, line |-> <<>>]
  ELSE LET split == Split(lines[i], " ")
           o1    == Append(o, split[1])
       IN  CASE Len(split) = 1 ->
                  ReplayFrom(lines, i + 1, fz, set(c, fz, split[1], <<>>), o1,
                             Append(h, <<split[1], <<>> >>))
             [] Len(split) = 2 ->
                  ReplayFrom(lines, i + 1, fz, set(c, fz, split[1], split[2]),
                             o1, Append(h, <<split[1], split[2]>>))
             [] OTHER ->
                  [err |-> TRUE, cache |-> EmptyCache, order |-> <<>>,
                   hist |-> <<>>, line |-> lines[i]]

\* Open's replay of the file content f into a fresh store
Replay(f, fz) == ReplayFrom(ScanLines(f), 1, fz, EmptyCache, <<>>, <<>>)

\* ---------------------------------------------------------------- state
VARIABLES
  files,   \* path -> content of the file at that path (absent = empty)
  path,    \* the path the store was opened on
  fuzzy,   \* FileStore.fuzzy
  cache,   \* FileStore.cache
  order,   \* FileStore.order
  st,      \* "open": s.file is open; "closed": after Close; "none": the last
           \* Open returned no store; "opening": Open has not returned yet
  hist,    \* history: the <<name, link>> arguments of the set calls applied
           \* to this store (by replay and by successful Sets), in order
  opens,   \* number of Open calls after the first one
  sets,    \* number of Set calls that wrote their record
  last,    \* the last call made and what it returned
  lock,    \* FileStore.lock: w is the goroutine that has called Lock and not
           \* yet Unlock (0 if none), r the goroutines holding a read lock
  thr      \* goroutine -> the call it is making on the store and its locals

vars ==
  <<files, path, fuzzy, cache, order, st, hist, opens, sets, last, lock, thr>>

\* leaked: the file handles the call opened and returned without closing them
\* or handing them to the store it returned; closed: the call closed the handle
\* of a store's log
Call(op, name, link, p, err, res) ==
  [op |-> op, name |-> name, link |-> link, path |-> p, err |-> err,
   res |-> res, bad |-> {}, afterDump |-> FALSE, prev |-> EmptyCache,
   io |-> FALSE, compact |-> FALSE, leaked |-> 0, closed |-> FALSE]

\* sync.RWMutex, zero value
Unlocked == [w |-> 0, r |-> {}]

\* a goroutine that has made no call yet. op and pc are the call and the
\* position in it; name and link its arguments; x and ok the locals link and
\* ok of Get; i the number of the line Open's scanner is at; cb the call the
\* callback handed to Iterate makes on the store ("none" if it makes none);
\* outer: the call in progress is made by the callback of this goroutine's
\* Iterate; res and err what the call returned; seen, history: the results
\* Get had in the Index states that held while the call was in progress; req
\* the request whose handler makes the call ("none": no handler is modelled)
Idle ==
  [op |-> "none", pc |-> "idle", name |-> <<>>, link |-> <<>>, x |-> <<>>,
   ok |-> FALSE, i |-> 0, cb |-> "none", outer |-> FALSE, res |-> <<>>,
   err |-> FALSE, seen |-> {}, req |-> "none"]

\* main: store, err := Open(file, fuzzy) on a file that does not exist yet
Init ==
  /\ files = [p \in Paths |-> <<>>]
  /\ path = "log"
  /\ fuzzy \in BOOLEAN
  /\ cache = EmptyCache
  /\ order = <<>>
  /\ st = "open"
  /\ hist = <<>>
  /\ opens = 0
  /\ sets = 0
  /\ last = Call("Open", <<>>, <<>>, "log", FALSE, <<>>)
  /\ lock = Unlocked
  /\ thr = [t \in Threads |-> Idle]

HasStore == st \in {"open", "closed"}

\* ---------------------------------------------------------------- Set
\* The numbers of bytes s.file.WriteString(rec) can have written when it
\* returns: all of rec (no error); any proper prefix when the write fails;
\* none when the file has been closed.
Written(rec) == IF st = "closed" THEN {0} ELSE 0..Len(rec)

\* a Set that appends to order but never calls set
SetMemory_orderOnly(c, o, fz, name, link, werr) ==
  IF werr THEN [cache |-> c, order |-> o]
  ELSE [cache |-> c, order |-> Append(o, name)]

\* a Set that updates order and cache before it looks at the write error
SetMemory_eager(c, o, fz, name, link, werr) ==
  [cache |-> set(c, fz, name, link), order |-> Append(o, name)]

\* Set's in-memory effect, given whether the write failed
SetMemory(c, o, fz, name, link, werr) ==
  IF werr THEN [cache |-> c, order |-> o]
  ELSE [cache |-> set(c, fz, name, link), order |-> Append(o, name)]

\* Set(name, link) when WriteString writes n bytes of the record
SetCall(name, link, n) ==
  LET rec  == Record(name, link)
      werr == n < Len(rec)
      m    == SetMemory(cache, order, fuzzy, name, link, werr)
  IN  /\ HasStore
      /\ Len(order) < MaxOrder
      /\ n \in Written(rec)
      /\ files' = [files EXCEPT ![path] = @ \o SubSeq(rec, 1, n)]
      /\ cache' = m.cache
      /\ order' = m.order
      /\ hist' = IF werr THEN hist ELSE Append(hist, <<name, link>>)
      /\ last' = Call("Set", name, link, path, werr, <<>>)
      /\ sets' = IF werr THEN sets ELSE sets + 1
      /\ UNCHANGED <<path, fuzzy, st, opens, lock, thr>>

\* ---------------------------------------------------------------- Get
GetCall(name) ==
  /\ HasStore
  /\ last' = Call("Get", name, <<>>, path, FALSE, Get(cache, fuzzy, name))
  /\ UNCHANGED <<files, path, fuzzy, cache, order, st, hist, opens, sets, lock,
                 thr>>

\* ---------------------------------------------------------------- Iterate
\* the callback either never fails or fails on one name
IterateCall(bad) ==
  /\ HasStore
  /\ LET r == Iterate(order, cache, fuzzy, bad)
     IN  last' = [Call("Iterate", <<>>, <<>>, path, r.err, r.out)
                    EXCEPT !.bad = bad]
  /\ UNCHANGED <<files, path, fuzzy, cache, order, st, hist, opens, sets, lock,
                 thr>>

\* ---------------------------------------------------------------- Dump
\* What Dump can leave at the target, whose content was old: the full dump
\* and no error; or an error and old (OpenFile failed), or an error and a
\* proper prefix of the dump in the truncated file (a write failed; the model
\* takes the empty prefix, the first write having failed, and the longest
\* one, which for the empty dump is the outcome of a failed Close). leak: the
\* handles Dump returns without closing, f after a failed write.
DumpOutcomes(content, old) ==
  {[err |-> FALSE, file |-> content, leak |-> 0]}
  \cup {[err |-> TRUE, file |-> old, leak |-> 0]}
  \cup {[err |-> TRUE, file |-> SubSeq(content, 1, n),
          leak |-> IF content = <<>> THEN 0 ELSE 1] :
          n \in {0, IF content = <<>> THEN 0 ELSE Len(content) - 1}}

\* a Dump that writes to the store's own log whatever its argument
DumpCall_toLog(p) ==
  /\ HasStore
  /\ \E d \in DumpOutcomes(DumpContent(order, cache, fuzzy), files[path]) :
       /\ files' = [files EXCEPT ![path] = d.file]
       /\ last' = [Call("Dump", <<>>, <<>>, p, d.err, <<>>)
                    EXCEPT !.leaked = d.leak]
  /\ UNCHANGED <<path, fuzzy, cache, order, st, hist, opens, sets, lock, thr>>

DumpCall(p) ==
  /\ HasStore
  /\ \E d \in DumpOutcomes(DumpContent(order, cache, fuzzy), files[p]) :
       /\ files' = [files EXCEPT ![p] = d.file]
       /\ last' = [Call("Dump", <<>>, <<>>, p, d.err, <<>>)
                    EXCEPT !.leaked = d.leak]
  /\ UNCHANGED <<path, fuzzy, cache, order, st, hist, opens, sets, lock, thr>>

\* ---------------------------------------------------------------- Close
\* s.file.Close(): nil or an I/O error the first time, an error once the
\* file is closed
CloseCall ==
  /\ HasStore
  /\ \E err \in (IF st = "open" THEN BOOLEAN ELSE {TRUE}) :
       last' = [Call("Close", <<>>, <<>>, path, err, <<>>)
                  EXCEPT !.closed = (st = "open")]
  /\ st' = "closed"
  /\ UNCHANGED <<files, path, fuzzy, cache, order, hist, opens, sets, lock, thr>>

\* ---------------------------------------------------------------- Open
\* Open returned (nil, err): the program holds no store
NoStore(op) ==
  /\ st' = "none"
  /\ cache' = EmptyCache
  /\ order' = <<>>
  /\ hist' = <<>>
  /\ path' = "log"
  /\ last' = op

\* Open returned the store replayed as r
Opened(p, fz, r, op) ==
  /\ st' = "open"
  /\ cache' = r.cache
  /\ order' = r.order
  /\ hist' = r.hist
  /\ path' = p
  /\ last' = op

\* Open(p, fuzzy, compact): the fuzzy flag is the one the program was started
\* with
OpenCall(p, compact) ==
  LET fz == fuzzy
      \* io: the error is an I/O failure; res: the line a format error names;
      \* afterDump: this Open follows a Dump of the same store to p and met
      \* no I/O failure; prev is the Index that store held
      op(err, io, line) ==
        [Call("Open", <<>>, <<>>, p, err, line) EXCEPT
           !.afterDump = /\ HasStore /\ last.op = "Dump" /\ ~last.err
                         /\ last.path = p /\ ~compact /\ ~io,
           !.prev = cache, !.io = io, !.compact = compact]
      r == Replay(files[p], fz)
  IN  /\ opens < MaxOpens
      /\ opens' = opens + 1
      /\ UNCHANGED <<fuzzy, sets, lock, thr>>
      /\ \/ \* OpenFile fails, or the scanner fails and Open returns with f open
            /\ UNCHANGED files
            /\ \E n \in {0, 1} :
                 NoStore([op(TRUE, TRUE, <<>>) EXCEPT !.leaked = n])
         \/ \* a line with more than two fields: Open returns with f open
            /\ r.err
            /\ UNCHANGED files
            /\ NoStore([op(TRUE, FALSE, r.line) EXCEPT !.leaked = 1])
         \/ /\ ~r.err /\ ~compact
            /\ UNCHANGED files
            /\ Opened(p, fz, r, op(FALSE, FALSE, <<>>))
         \/ \* compact: Dump over the log, then Open(filename, fuzzy, false)
            /\ ~r.err /\ compact
            /\ \E d \in DumpOutcomes(DumpContent(r.order, r.cache, fz), files[p]) :
                 /\ files' = [files EXCEPT ![p] = d.file]
                 /\ LET r2 == Replay(d.file, fz)
                        o2(err, io, line, n) ==
                          [op(err, io, line) EXCEPT !.closed = TRUE,
                                                    !.leaked = n]
                    IN  IF d.err THEN NoStore(o2(TRUE, TRUE, r2.line, d.leak))
                        ELSE IF r2.err
                        THEN NoStore(o2(TRUE, FALSE, r2.line, 1))
                        ELSE Opened(p, fz, r2, o2(FALSE, FALSE, <<>>, 0))

\* ---------------------------------------------------------------- goroutines
\* The calls of Get, Set, Iterate and Close made by concurrent goroutines,
\* one step per lock operation and per access to the file, the order array
\* and the cache.

\* goroutine t is at position pc of a call of op
At(t, op, pc) == thr[t].op = op /\ thr[t].pc = pc

\* the critical sections: between RLock and RUnlock, between Lock and Unlock
InRead(t) == thr[t].pc \in {"get1", "get2", "iter"} \/ thr[t].outer

\* the reader a read lock of goroutine t is counted as: t, and -t for the
\* read lock of a call made inside Iterate's callback, which t holds on top
\* of Iterate's
Rid(t) == IF thr[t].outer THEN 0 - t ELSE t

InWrite(t) == thr[t].pc \in {"write", "order", "set1", "set2", "close"}

RECURSIVE IndexOf(_, _)
\* the cache after the set calls of h, applied in order
IndexOf(h, fz) ==
  IF h = <<>> THEN EmptyCache
  ELSE set(IndexOf(SubSeq(h, 1, Len(h) - 1), fz), fz, h[Len(h)][1], h[Len(h)][2])

\* history: the cache as the last Set that has returned left it (a Set that
\* has written the first of its two entries has not returned yet)
Committed ==
  IF \E u \in Threads : At(u, "Set", "set2")
  THEN IndexOf(SubSeq(hist, 1, Len(hist) - 1), fuzzy)
  ELSE cache

\* a handler calls op on the store Open has returned; at most MaxLog Sets are
\* made
Invoke(t, op, name, link) ==
  /\ HasStore
  /\ thr[t].pc = "idle" /\ ~thr[t].outer /\ thr[t].req = "none"
  /\ op = "Set" =>
       sets + Cardinality({u \in Threads : thr[u].op = "Set" /\ thr[u].pc # "idle"})
         < MaxLog
  /\ thr' = [thr EXCEPT ![t] =
               [Idle EXCEPT !.op = op, !.pc = "lock", !.name = name,
                            !.link = link,
                            !.seen = IF op = "Get"
                                     THEN {Get(Committed, fuzzy, name)} ELSE {}]]
  /\ UNCHANGED <<files, path, fuzzy, cache, order, st, hist, opens, sets, last,
                 lock>>

\* an RLock that does not wait for a writer
RLock_noWait(t) ==
  /\ thr[t].pc = "lock" /\ thr[t].op \in {"Get", "Iterate"}
  /\ lock' = [lock EXCEPT !.r = @ \cup {Rid(t)}]
  /\ thr' = [thr EXCEPT ![t].pc = IF thr[t].op = "Get" THEN "get1" ELSE "iter"]
  /\ UNCHANGED <<files, path, fuzzy, cache, order, st, hist, opens, sets, last>>

\* s.lock.RLock() in Get and Iterate: blocks while a writer holds the lock or
\* waits for it
RLock(t) ==
  /\ thr[t].pc = "lock" /\ thr[t].op \in {"Get", "Iterate"}
  /\ lock.w = 0
  /\ lock' = [lock EXCEPT !.r = @ \cup {Rid(t)}]
  /\ thr' = [thr EXCEPT ![t].pc = IF thr[t].op = "Get" THEN "get1" ELSE "iter"]
  /\ UNCHANGED <<files, path, fuzzy, cache, order, st, hist, opens, sets, last>>

\* s.lock.Lock() in Set and Close, first half: the writer excludes other
\* writers and new readers
Lock(t) ==
  /\ thr[t].pc = "lock" /\ thr[t].op \in {"Set", "Close"}
  /\ lock.w = 0
  /\ lock' = [lock EXCEPT !.w = t]
  /\ thr' = [thr EXCEPT ![t].pc = "wait"]
  /\ UNCHANGED <<files, path, fuzzy, cache, order, st, hist, opens, sets, last>>

\* a Lock that does not wait for the readers to leave
LockWait_noWait(t) ==
  /\ thr[t].pc = "wait"
  /\ thr' = [thr EXCEPT ![t].pc = IF thr[t].op = "Set" THEN "write" ELSE "close"]
  /\ UNCHANGED <<files, path, fuzzy, cache, order, st, hist, opens, sets, last,
                 lock>>

\* s.lock.Lock(), second half: the writer waits until the readers have left
LockWait(t) ==
  /\ thr[t].pc = "wait"
  /\ lock.r = {}
  /\ thr' = [thr EXCEPT ![t].pc = IF thr[t].op = "Set" THEN "write" ELSE "close"]
  /\ UNCHANGED <<files, path, fuzzy, cache, order, st, hist, opens, sets, last,
                 lock>>

\* Get returns: the test of ok and link, and the deferred RUnlock
GetReturn(t, x, ok) ==
  /\ thr' = [thr EXCEPT ![t].pc = "idle", ![t].x = x, ![t].ok = ok,
                        ![t].res = IF ~ok \/ x = <<>> THEN << <<>>, FALSE >>
                                   ELSE <<x, TRUE>>]
  /\ lock' = [lock EXCEPT !.r = @ \ {Rid(t)}]

\* get, first read: link, ok := s.cache[name]
Get1(t) ==
  /\ At(t, "Get", "get1")
  /\ LET ok == thr[t].name \in DOMAIN cache
         x  == IF ok THEN cache[thr[t].name] ELSE <<>>
     IN  IF (~ok \/ x = <<>>) /\ fuzzy
         THEN /\ thr' = [thr EXCEPT ![t].pc = "get2", ![t].x = x, ![t].ok = ok]
              /\ UNCHANGED lock
         ELSE GetReturn(t, x, ok)
  /\ UNCHANGED <<files, path, fuzzy, cache, order, st, hist, opens, sets, last>>

\* get, second read: link, ok = s.cache[fuzz(name)]
Get2(t) ==
  /\ At(t, "Get", "get2")
  /\ LET ok == fuzz(thr[t].name) \in DOMAIN cache
         x  == IF ok THEN cache[fuzz(thr[t].name)] ELSE <<>>
     IN  GetReturn(t, x, ok)
  /\ UNCHANGED <<files, path, fuzzy, cache, order, st, hist, opens, sets, last>>

\* a WriteString that reports success and writes nothing
SetWrite_unlogged(t) ==
  /\ At(t, "Set", "write")
  /\ IF st = "closed"
     THEN /\ thr' = [thr EXCEPT ![t].pc = "idle", ![t].err = TRUE]
          /\ lock' = [lock EXCEPT !.w = 0]
     ELSE /\ thr' = [thr EXCEPT ![t].pc = "order"]
          /\ UNCHANGED lock
  /\ UNCHANGED <<files, path, fuzzy, cache, order, st, hist, opens, sets, last>>

\* Set: s.file.WriteString(record); on an error (the file is closed) Set
\* returns it and the deferred Unlock runs
SetWrite(t) ==
  /\ At(t, "Set", "write")
  /\ IF st = "closed"
     THEN /\ thr' = [thr EXCEPT ![t].pc = "idle", ![t].err = TRUE]
          /\ lock' = [lock EXCEPT !.w = 0]
          /\ UNCHANGED files
     ELSE /\ files' = [files EXCEPT
                         ![path] = @ \o Record(thr[t].name, thr[t].link)]
          /\ thr' = [thr EXCEPT ![t].pc = "order"]
          /\ UNCHANGED lock
  /\ UNCHANGED <<path, fuzzy, cache, order, st, hist, opens, sets, last>>

\* Set: s.order = append(s.order, name)
SetOrder(t) ==
  /\ At(t, "Set", "order")
  /\ order' = Append(order, thr[t].name)
  /\ hist' = Append(hist, <<thr[t].name, thr[t].link>>)
  /\ thr' = [thr EXCEPT ![t].pc = "set1"]
  /\ UNCHANGED <<files, path, fuzzy, cache, st, opens, sets, last, lock>>

\* set, first half: the entry of name
setExact(c, name, link) ==
  IF link = <<>> THEN Del(c, name) ELSE Put(c, name, link)

\* set, second half: the entry of fuzz(name)
setAlias(c, name, link) ==
  IF link = <<>> THEN Del(c, fuzz(name)) ELSE Put(c, fuzz(name), link)

\* Set returns nil and the deferred Unlock runs. The Gets in progress have
\* now been concurrent with an Index in which this Set is applied.
SetReturn(t, c) ==
  /\ thr' = [u \in Threads |->
               IF u = t THEN [thr[t] EXCEPT !.pc = "idle"]
               ELSE IF thr[u].op = "Get" /\ thr[u].pc # "idle"
                    THEN [thr[u] EXCEPT
                            !.seen = @ \cup {Get(c, fuzzy, thr[u].name)}]
                    ELSE thr[u]]
  /\ lock' = [lock EXCEPT !.w = 0]
  /\ sets' = sets + 1

Set1(t) ==
  /\ At(t, "Set", "set1")
  /\ cache' = setExact(cache, thr[t].name, thr[t].link)
  /\ IF fuzzy
     THEN /\ thr' = [thr EXCEPT ![t].pc = "set2"]
          /\ UNCHANGED <<lock, sets>>
     ELSE SetReturn(t, cache')
  /\ UNCHANGED <<files, path, fuzzy, order, st, hist, opens, last>>

Set2(t) ==
  /\ At(t, "Set", "set2")
  /\ cache' = setAlias(cache, thr[t].name, thr[t].link)
  /\ SetReturn(t, cache')
  /\ UNCHANGED <<files, path, fuzzy, order, st, hist, opens, last>>

\* a handler calls Iterate with a callback that calls cb on the store
InvokeIterate(t, cb) ==
  /\ HasStore
  /\ thr[t].pc = "idle" /\ ~thr[t].outer /\ thr[t].req = "none"
  /\ thr' = [thr EXCEPT ![t] = [Idle EXCEPT !.op = "Iterate", !.pc = "lock",
                                            !.cb = cb]]
  /\ UNCHANGED <<files, path, fuzzy, cache, order, st, hist, opens, sets, last,
                 lock>>

\* the first pair Iterate hands to its callback
FirstPair == Iterate(order, cache, fuzzy, {}).out[1]

\* the call the callback makes on the pair it is handed: Get(name), or
\* Set(name, link)
InnerCall(t) ==
  [Idle EXCEPT !.op = thr[t].cb, !.pc = "lock", !.outer = TRUE,
               !.name = FirstPair[1], !.link = FirstPair[2],
               !.seen = IF thr[t].cb = "Get"
                        THEN {Get(Committed, fuzzy, FirstPair[1])} ELSE {}]

\* an Iterate that releases its read lock before it calls the callback
IterCallback_unlocked(t) ==
  /\ At(t, "Iterate", "iter") /\ thr[t].cb # "none"
  /\ Iterate(order, cache, fuzzy, {}).out # <<>>
  /\ thr' = [thr EXCEPT ![t] = InnerCall(t)]
  /\ lock' = [lock EXCEPT !.r = @ \ {t}]
  /\ UNCHANGED <<files, path, fuzzy, cache, order, st, hist, opens, sets, last>>

\* Iterate calls cb(next, link) on the first name it finds, still holding
\* its read lock, and the callback calls the store
IterCallback(t) ==
  /\ At(t, "Iterate", "iter") /\ thr[t].cb # "none"
  /\ Iterate(order, cache, fuzzy, {}).out # <<>>
  /\ thr' = [thr EXCEPT ![t] = InnerCall(t)]
  /\ UNCHANGED <<files, path, fuzzy, cache, order, st, hist, opens, sets, last,
                 lock>>

\* the call made by the callback has returned, the callback returns nil and
\* Iterate goes on with a callback that makes no further call
CallbackReturn(t) ==
  /\ thr[t].outer /\ thr[t].pc = "idle"
  /\ thr' = [thr EXCEPT ![t] = [Idle EXCEPT !.op = "Iterate", !.pc = "iter"]]
  /\ UNCHANGED <<files, path, fuzzy, cache, order, st, hist, opens, sets, last,
                 lock>>

\* Iterate's loop with a callback that never fails and calls nothing, and the
\* deferred RUnlock
IterBody(t) ==
  /\ At(t, "Iterate", "iter")
  /\ thr[t].cb = "none" \/ Iterate(order, cache, fuzzy, {}).out = <<>>
  /\ thr' = [thr EXCEPT ![t].pc = "idle",
                        ![t].res = Iterate(order, cache, fuzzy, {}).out]
  /\ lock' = [lock EXCEPT !.r = @ \ {t}]
  /\ UNCHANGED <<files, path, fuzzy, cache, order, st, hist, opens, sets, last>>

\* Close: s.file.Close() and the deferred Unlock
CloseBody(t) ==
  /\ At(t, "Close", "close")
  /\ st' = "closed"
  /\ thr' = [thr EXCEPT ![t].pc = "idle", ![t].err = (st = "closed")]
  /\ lock' = [lock EXCEPT !.w = 0]
  /\ UNCHANGED <<files, path, fuzzy, cache, order, hist, opens, sets, last>>

\* Open(file, fuzzy) on a log that Sets of an earlier run have written
InitConc ==
  /\ fuzzy \in BOOLEAN
  /\ \E f \in ConcLogs :
       /\ files = [p \in Paths |-> IF p = "log" THEN f ELSE <<>>]
       /\ cache = Replay(f, fuzzy).cache
       /\ order = Replay(f, fuzzy).order
       /\ hist = Replay(f, fuzzy).hist
  /\ path = "log"
  /\ st = "open"
  /\ opens = 0
  /\ sets = 0
  /\ last = Call("Open", <<>>, <<>>, "log", FALSE, <<>>)
  /\ lock = Unlocked
  /\ thr = [t \in Threads |-> Idle]

\* ---------------------------------------------------------------- Open, stepwise
\* Open(file, fuzzy) of main as the steps of one goroutine: the store s is a
\* local of Open until Open returns it, and Open calls no method of s.lock.

\* an Open that hands the store to the handlers before it has replayed the log
OpenFile_publish(t, ok) ==
  /\ At(t, "Open", "open")
  /\ st' = "open"
  /\ thr' = [thr EXCEPT ![t].pc = "scan", ![t].i = 1]
  /\ UNCHANGED <<files, path, fuzzy, cache, order, hist, opens, sets, last,
                 lock>>

\* f, err := os.OpenFile(filename, ...); s.file = f
OpenFile(t, ok) ==
  /\ At(t, "Open", "open")
  /\ IF ok
     THEN /\ thr' = [thr EXCEPT ![t].pc = "scan", ![t].i = 1]
          /\ UNCHANGED st
     ELSE /\ thr' = [thr EXCEPT ![t].pc = "idle", ![t].err = TRUE]
          /\ st' = "none"
  /\ UNCHANGED <<files, path, fuzzy, cache, order, hist, opens, sets, last,
                 lock>>

\* one turn of the scanner loop, or, after the last line, return s, nil
OpenScan(t) ==
  /\ At(t, "Open", "scan")
  /\ LET lines == ScanLines(files[path])
         i     == thr[t].i
         split == Split(lines[i], " ")
         link  == IF Len(split) = 1 THEN <<>> ELSE split[2]
     IN  IF i > Len(lines)
         THEN /\ st' = "open"
              /\ thr' = [thr EXCEPT ![t].pc = "idle"]
              /\ UNCHANGED <<cache, order, hist>>
         ELSE IF Len(split) <= 2
         THEN /\ order' = Append(order, split[1])
              /\ cache' = set(cache, fuzzy, split[1], link)
              /\ hist' = Append(hist, <<split[1], link>>)
              /\ thr' = [thr EXCEPT ![t].i = i + 1]
              /\ UNCHANGED st
         ELSE /\ st' = "none"
              /\ cache' = EmptyCache /\ order' = <<>> /\ hist' = <<>>
              /\ thr' = [thr EXCEPT ![t].pc = "idle", ![t].err = TRUE,
                                    ![t].res = lines[i]]
  /\ UNCHANGED <<files, path, fuzzy, opens, sets, last, lock>>

\* main has called Open on a log that Sets of an earlier run have written
InitOpen ==
  /\ fuzzy \in BOOLEAN
  /\ \E f \in OpenLogs : files = [p \in Paths |-> IF p = "log" THEN f ELSE <<>>]
  /\ cache = EmptyCache
  /\ order = <<>>
  /\ hist = <<>>
  /\ path = "log"
  /\ st = "opening"
  /\ opens = 0
  /\ sets = 0
  /\ last = Call("Open", <<>>, <<>>, "log", FALSE, <<>>)
  /\ lock = Unlocked
  /\ thr = [t \in Threads |->
              IF t = 1 THEN [Idle EXCEPT !.op = "Open", !.pc = "open"] ELSE Idle]

\* ---------------------------------------------------------------- Next
\* The store while it serves requests: the handlers call Get, Set and Iterate
\* on the store Open returned. A failing write is taken to have written
\* nothing.
Next ==
  \/ \E name \in Names, link \in Links :
       \E n \in {0, Len(Record(name, link))} : SetCall(name, link, n)
  \/ \E name \in GetNames : GetCall(name)
  \/ \E bad \in {{}, {<<"a">>}} : IterateCall(bad)

Spec == Init /\ [][Next]_vars

\* The store and its files over Set, Dump, Close and a later Open. Writes to
\* the log succeed while it is open, and Dump is the one of main, to a file
\* other than the log; the Dump of a compacting Open goes to the log.
NextFile ==
  \/ \E name \in FileNames, link \in FileLinks :
       \E n \in {IF st = "closed" THEN 0 ELSE Len(Record(name, link))} :
         sets < MaxLog /\ SetCall(name, link, n)
  \/ GetCall(<<"a">>)
  \/ IterateCall({})
  \/ DumpCall("dmp")
  \/ CloseCall
  \/ \E p \in Paths, compact \in BOOLEAN : OpenCall(p, compact)

SpecFile == Init /\ [][NextFile]_vars

\* The store under Set and Dump to any path, the path of its own log included,
\* and a later Open of either file.
NextDump ==
  \/ \E name \in LineNames, link \in FileLinks :
       sets < MaxLog /\ SetCall(name, link, Len(Record(name, link)))
  \/ \E p \in Paths : DumpCall(p)
  \/ \E p \in Paths : OpenCall(p, FALSE)

SpecDump == Init /\ [][NextDump]_vars

\* The store called by concurrent request handlers.
NextConc ==
  \E t \in Threads :
    \/ \E name \in ConcNames : Invoke(t, "Get", name, <<>>)
    \/ \E name \in ConcNames, link \in ConcLinks : Invoke(t, "Set", name, link)
    \/ Invoke(t, "Iterate", <<>>, <<>>)
    \/ Invoke(t, "Close", <<>>, <<>>)
    \/ RLock(t)
    \/ Lock(t)
    \/ LockWait(t)
    \/ Get1(t)
    \/ Get2(t)
    \/ SetWrite(t)
    \/ SetOrder(t)
    \/ Set1(t)
    \/ Set2(t)
    \/ IterBody(t)
    \/ CloseBody(t)

SpecConc == InitConc /\ [][NextConc]_vars

\* Open running in main's goroutine, and the handlers that read the store
\* once they have it.
NextOpen ==
  \E t \in Threads :
    \/ \E ok \in BOOLEAN : OpenFile(t, ok)
    \/ OpenScan(t)
    \/ \E name \in ConcNames : Invoke(t, "Get", name, <<>>)
    \/ Invoke(t, "Iterate", <<>>, <<>>)
    \/ RLock(t)
    \/ Get1(t)
    \/ Get2(t)
    \/ IterBody(t)

SpecOpen == InitOpen /\ [][NextOpen]_vars

\* ---------------------------------------------------------------- handlers
\* postLink with update = true and deleteLink, one step per call on the store.
\* The form's name is the name of the path and its link is a valid URL.

\* the handler of request req calls Get(name), keeping link for its Set
HandlerGet(t, req, name, link) ==
  [Idle EXCEPT !.op = "Get", !.pc = "lock", !.name = name, !.link = link,
               !.req = req, !.seen = {Get(Committed, fuzzy, name)}]

\* a request arrives, UPDATE (postLink with update = true) or DELETE
\* (deleteLink), and its handler calls store.Get(name); at most MaxLog Sets
\* are made
Request(t, req, name, link) ==
  /\ HasStore
  /\ thr[t].pc = "idle" /\ ~thr[t].outer /\ thr[t].req = "none"
  /\ sets + Cardinality({u \in Threads : thr[u].req # "none"}) < MaxLog
  /\ thr' = [thr EXCEPT ![t] = HandlerGet(t, req, name, link)]
  /\ UNCHANGED <<files, path, fuzzy, cache, order, st, hist, opens, sets, last,
                 lock>>

\* Get has returned: the handler answers 404 if !ok, and else calls
\* store.Set(name, link), store.Set(name, "") for a DELETE
HandlerCheck(t) ==
  /\ thr[t].req # "none" /\ At(t, "Get", "idle")
  /\ thr' = [thr EXCEPT ![t] =
               IF ~thr[t].res[2] THEN Idle
               ELSE [Idle EXCEPT !.op = "Set", !.pc = "lock",
                                 !.name = thr[t].name, !.link = thr[t].link,
                                 !.req = thr[t].req]]
  /\ UNCHANGED <<files, path, fuzzy, cache, order, st, hist, opens, sets, last,
                 lock>>

\* Set has returned: the handler answers 500 or redirects to "/"
HandlerDone(t) ==
  /\ thr[t].req # "none" /\ At(t, "Set", "idle")
  /\ thr' = [thr EXCEPT ![t] = Idle]
  /\ UNCHANGED <<files, path, fuzzy, cache, order, st, hist, opens, sets, last,
                 lock>>

\* Handlers of which some call Iterate with a callback that calls Get or Set
\* on the store it iterates, next to handlers that call Get and Set.
NextCb ==
  \E t \in Threads :
    \/ \E cb \in {"Get", "Set"} : InvokeIterate(t, cb)
    \/ \E name \in ConcNames : Invoke(t, "Get", name, <<>>)
    \/ Invoke(t, "Set", <<"a">>, <<"x">>)
    \/ IterCallback(t)
    \/ CallbackReturn(t)
    \/ RLock(t)
    \/ Lock(t)
    \/ LockWait(t)
    \/ Get1(t)
    \/ Get2(t)
    \/ SetWrite(t)
    \/ SetOrder(t)
    \/ Set1(t)
    \/ Set2(t)
    \/ IterBody(t)

SpecCb == InitConc /\ [][NextCb]_vars

\* UPDATE and DELETE requests served by concurrent handlers.
NextHttp ==
  \E t \in Threads :
    \/ \E name \in ConcNames : Request(t, "UPDATE", name, <<"x">>)
    \/ \E name \in ConcNames : Request(t, "DELETE", name, <<>>)
    \/ HandlerCheck(t)
    \/ HandlerDone(t)
    \/ RLock(t)
    \/ Lock(t)
    \/ LockWait(t)
    \/ Get1(t)
    \/ Get2(t)
    \/ SetWrite(t)
    \/ SetOrder(t)
    \/ Set1(t)
    \/ Set2(t)

SpecHttp == InitConc /\ [][NextHttp]_vars

TypeOK ==
  /\ st \in {"open", "closed", "none", "opening"}
  /\ path \in Paths
  /\ fuzzy \in BOOLEAN
  /\ opens \in 0..MaxOpens
  /\ sets \in 0..MaxOrder
  /\ Len(order) = Len(hist)

\* ================================================================ claims
Range(q) == {q[i] : i \in 1..Len(q)}

\* the last position of the name k in the sequence of names o, 0 if none
LastPos(o, k) ==
  LET at == {i \in 1..Len(o) : o[i] = k}
  IN  IF at = {} THEN 0 ELSE CHOOSE i \in at : \A j \in at : j <= i

\* the names written so far
Written_names == {hist[i][1] : i \in 1..Len(hist)}

\* the index in hist of the most recent write of k, and its link
LastWrite(k) == LastPos([i \in 1..Len(hist) |-> hist[i][1]], k)
LastLink(k) == hist[LastWrite(k)][2]

\* the normalized form of a name as the specification words it: lower-cased,
\* with every '-' and '_' removed
Normalized(name) ==
  LET keep(c) == c \notin {"-", "_"}
  IN  ToLower(SelectSeq(name, keep))

\* what Get must return for a name whose value is link
Found(link) == IF link = <<>> THEN << <<>>, FALSE >> ELSE <<link, TRUE>>

\* C1: right after a successful Set(k, L) with L non-empty, Get(k) returns
\* (L, true), with fuzzy mode on or off; a Get call made on k while that Set
\* is still the most recent write returns it.
C1_GetAfterSet ==
  (hist # <<>> /\ hist[Len(hist)][2] # <<>>) =>
    LET k == hist[Len(hist)][1]
        L == hist[Len(hist)][2]
    IN  /\ Get(cache, fuzzy, k) = <<L, TRUE>>
        /\ (last.op = "Get" /\ last.name = k) => last.res = <<L, TRUE>>

\* a Get on the name just set, which held another link before
C1_Witness ==
  /\ hist # <<>> /\ hist[Len(hist)][2] # <<>>
  /\ last.op = "Get" /\ last.name = hist[Len(hist)][1]
  /\ last.res = <<hist[Len(hist)][2], TRUE>>
  /\ \E i \in 1..(Len(hist) - 1) :
       /\ hist[i][1] = last.name
       /\ hist[i][2] \notin {<<>>, hist[Len(hist)][2]}

\* C2: right after a successful Set(k, ""), Get(k) returns ("", false), with
\* fuzzy mode on or off.
C2_GetAfterDelete ==
  (hist # <<>> /\ hist[Len(hist)][2] = <<>>) =>
    LET k == hist[Len(hist)][1]
    IN  /\ Get(cache, fuzzy, k) = << <<>>, FALSE >>
        /\ (last.op = "Get" /\ last.name = k) => last.res = << <<>>, FALSE >>

\* a Get on a name that held a link and was just deleted, in fuzzy mode
C2_Witness ==
  /\ fuzzy
  /\ hist # <<>> /\ hist[Len(hist)][2] = <<>>
  /\ last.op = "Get" /\ last.name = hist[Len(hist)][1]
  /\ last.res = << <<>>, FALSE >>
  /\ \E i \in 1..(Len(hist) - 1) :
       hist[i][1] = last.name /\ hist[i][2] # <<>>

\* the log at the store's path replays, with the store's fuzzy setting, to the
\* store's Index
ReplaysToIndex ==
  LET r == Replay(files[path], fuzzy)
  IN  ~r.err /\ r.cache = cache

\* C3: every Set, successful or failed, keeps the on-disk log replaying to
\* exactly the in-memory Index (so a close and reopen gives the same Get
\* results).
C3_ReplayIsIndex ==
  [][(HasStore /\ last'.op = "Set" /\ ReplaysToIndex) => ReplaysToIndex']_vars

\* C4: Iterate invokes the callback at most once per name and delivers the
\* names in decreasing order of the position of their most recent write in
\* the order array.
C4_IterateOrder ==
  last.op = "Iterate" =>
    \A i, j \in 1..Len(last.res) :
      i < j => /\ last.res[i][1] # last.res[j][1]
               /\ LastPos(order, last.res[j][1]) > 0
               /\ LastPos(order, last.res[i][1]) > LastPos(order, last.res[j][1])

\* after Set(a,X), Set(b,Y), Set(a,Z), Iterate delivers (a,Z) and then (b,Y)
C4_Witness ==
  /\ hist = << <<<<"a">>, <<"x">>>>, <<<<"b">>, <<"y">>>>, <<<<"a">>, <<"y">>>> >>
  /\ last.op = "Iterate" /\ ~last.err
  /\ last.res = << <<<<"a">>, <<"y">>>>, <<<<"b">>, <<"y">>>> >>

\* C5 as stated: Iterate delivers every name whose most recent write carried
\* a non-empty link, paired with that link, with fuzzy mode on or off.
C5_Original ==
  (last.op = "Iterate" /\ ~last.err) =>
    \A k \in Written_names :
      LastLink(k) # <<>> => <<k, LastLink(k)>> \in Range(last.res)

\* no write after the most recent write of k was made on another name whose
\* normalized form is the string k
NotAliased(k) ==
  \A j \in (LastWrite(k) + 1)..Len(hist) :
    ~(hist[j][1] # k /\ Normalized(hist[j][1]) = k)

\* C5 amended: Iterate delivers every name whose most recent write carried a
\* non-empty link, paired with that link, when fuzzy mode is off, and in fuzzy
\* mode when no later write was made on a different name whose normalized
\* form is that name.
C5_LastWriteWins ==
  (last.op = "Iterate" /\ ~last.err) =>
    \A k \in Written_names :
      (LastLink(k) # <<>> /\ (~fuzzy \/ NotAliased(k)))
        => <<k, LastLink(k)>> \in Range(last.res)

\* in fuzzy mode: a name overwritten once, then a fuzzy-equivalent name
\* written after it, and Iterate still delivers the name with its last link
C5_Witness ==
  /\ fuzzy /\ last.op = "Iterate" /\ ~last.err
  /\ \E k \in Written_names :
       /\ LastLink(k) # <<>> /\ NotAliased(k)
       /\ <<k, LastLink(k)>> \in Range(last.res)
       /\ \E i \in 1..(LastWrite(k) - 1) :
            hist[i][1] = k /\ hist[i][2] \notin {<<>>, LastLink(k)}
       /\ \E j \in (LastWrite(k) + 1)..Len(hist) :
            hist[j][1] # k /\ Normalized(hist[j][1]) = Normalized(k)

\* C6 as stated: Iterate never delivers a name whose most recent write is a
\* tombstone, with fuzzy mode on or off.
C6_Original ==
  last.op = "Iterate" =>
    \A i \in 1..Len(last.res) :
      /\ last.res[i][1] \in Written_names
      /\ LastLink(last.res[i][1]) # <<>>

\* a later write on a different, fuzzy-equivalent name carried a link
RevivedByAlias(k) ==
  \E j \in (LastWrite(k) + 1)..Len(hist) :
    hist[j][1] # k /\ Normalized(hist[j][1]) = Normalized(k) /\ hist[j][2] # <<>>

\* C6 amended: Iterate never delivers a name whose most recent write is a
\* tombstone, except in fuzzy mode a name for which a later Set on a
\* different name with the same normalized form carried a non-empty link.
C6_TombstoneExcluded ==
  last.op = "Iterate" =>
    \A i \in 1..Len(last.res) :
      /\ last.res[i][1] \in Written_names
      /\ LastLink(last.res[i][1]) = <<>>
           => (fuzzy /\ RevivedByAlias(last.res[i][1]))

\* after Set(a,X), Set(b,Y), Set(a,""), Iterate delivers exactly (b,Y)
C6_Witness ==
  /\ hist = << <<<<"a">>, <<"x">>>>, <<<<"b">>, <<"y">>>>, <<<<"a">>, <<>>>> >>
  /\ last.op = "Iterate" /\ ~last.err
  /\ last.res = << <<<<"b">>, <<"y">>>> >>

\* C7: a Set whose write fails leaves cache and order as they were; a Set
\* whose write succeeds, also after a failed one, appends its name to order
\* and makes Get return its link.
C7_FailedSetNoEffect ==
  [][/\ (last'.op = "Set" /\ last'.err) => (cache' = cache /\ order' = order)
     /\ (last'.op = "Set" /\ ~last'.err) =>
          /\ order' = Append(order, last'.name)
          /\ Get(cache', fuzzy, last'.name) = Found(last'.link)]_vars

\* a Set that failed on a store holding other names: it would have replaced
\* the link of its name, and the name still has the old one
C7_Witness ==
  /\ last.op = "Set" /\ last.err /\ last.link # <<>>
  /\ Len(order) >= 2
  /\ last.name \in DOMAIN cache /\ cache[last.name] # last.link

\* C8: no entry of the cache holds the empty string, so no Get returns
\* found = true with an empty link and Iterate hands no empty link to its
\* callback.
C8_NoEmptyLink ==
  /\ \A k \in DOMAIN cache : cache[k] # <<>>
  /\ last.op = "Get" => (last.res[2] => last.res[1] # <<>>)
  /\ last.op = "Iterate" => \A i \in 1..Len(last.res) : last.res[i][2] # <<>>

\* a store opened by replaying a log with a tombstone in it, which then
\* delivered a link from Iterate
C8_Witness ==
  /\ opens > 0 /\ HasStore
  /\ \E i \in 1..Len(hist) : hist[i][2] = <<>>
  /\ last.op = "Iterate" /\ last.res # <<>>

\* C9: in fuzzy mode, right after a successful Set(k, L) with L non-empty,
\* Get(k2) returns (L, true) for every k2 with the normalized form of k that
\* has no entry of its own in the cache (or is k or its normalized form).
C9_FuzzyEquivalence ==
  (fuzzy /\ hist # <<>> /\ hist[Len(hist)][2] # <<>>) =>
    LET k == hist[Len(hist)][1]
        L == hist[Len(hist)][2]
        covered(k2) == /\ Normalized(k2) = Normalized(k)
                       /\ (k2 \notin DOMAIN cache \/ k2 = k \/ k2 = Normalized(k))
    IN  /\ \A k2 \in GetNames : covered(k2) => Get(cache, fuzzy, k2) = <<L, TRUE>>
        /\ (last.op = "Get" /\ covered(last.name)) => last.res = <<L, TRUE>>

\* after Set("A-", L) on an empty store, Get("a_") returns (L, true), and so
\* do Get("a") and Get("A")
C9_Witness ==
  /\ fuzzy
  /\ hist = << <<<<"A", "-">>, <<"x">>>> >>
  /\ last.op = "Get" /\ last.name = <<"a", "_">> /\ last.res = <<<<"x">>, TRUE>>
  /\ Get(cache, fuzzy, <<"a">>) = <<<<"x">>, TRUE>>
  /\ Get(cache, fuzzy, <<"A">>) = <<<<"x">>, TRUE>>

\* C10: an Open of the file a Dump has just written, with the same fuzzy
\* setting and no I/O failure, returns a store whose Index equals the Index
\* of the store that was dumped.
C10_DumpThenOpen ==
  (last.op = "Open" /\ last.afterDump) => (~last.err /\ cache = last.prev)

\* the names written so far for which Get finds a link: the live keys
LiveKeys == {k \in Written_names : Get(cache, fuzzy, k)[2]}

\* C11: the file a successful Dump has written holds exactly one line for
\* each live key, the key followed by a space and the link Get returns for it,
\* and no other line: as many lines as there are live keys, none of them a
\* tombstone.
C11_DumpOneRecordPerLiveKey ==
  (last.op = "Dump" /\ ~last.err) =>
    LET lines == ScanLines(files[last.path])
    IN  /\ Len(lines) = Cardinality(LiveKeys)
        /\ Range(lines) =
             {k \o <<" ">> \o Get(cache, fuzzy, k)[1] : k \in LiveKeys}
        /\ \A i \in 1..Len(lines) :
             LET split == Split(lines[i], " ")
             IN  Len(split) >= 2 /\ split[Len(split)] # <<>>

\* C12 as stated: a Dump to any path leaves the store's log file, its cache
\* and its order array as they were, and a successful one leaves the snapshot
\* at that path.
C12_Original ==
  [][last'.op = "Dump" =>
       /\ files'[path] = files[path]
       /\ cache' = cache /\ order' = order
       /\ ~last'.err => files'[last'.path] = DumpContent(order, cache, fuzzy)]_vars

\* C12 amended: a Dump leaves the cache and the order array as they were, a
\* successful one leaves the snapshot at its path, and a Dump to a path other
\* than that of the store's log leaves the log as it was.
C12_DumpFrame ==
  [][last'.op = "Dump" =>
       /\ last'.path # path => files'[path] = files[path]
       /\ cache' = cache /\ order' = order
       /\ ~last'.err => files'[last'.path] = DumpContent(order, cache, fuzzy)]_vars

\* a successful Dump to another file of a store whose log holds two records
\* of one name: the log is still there, and the dump is shorter
C12_Witness ==
  /\ last.op = "Dump" /\ ~last.err /\ last.path # path
  /\ Len(hist) = 2 /\ hist[1][1] = hist[2][1]
  /\ Len(ScanLines(files[path])) = 2
  /\ Len(ScanLines(files[last.path])) = 1

\* C13: whatever a Get returns is the result Get had on that name in one of
\* the states of the Index between which the call ran: the one before a
\* concurrent Set or the one after it, never a mix of the two.
C13_NoTornRead ==
  \A t \in Threads :
    (thr[t].op = "Get" /\ thr[t].pc = "idle") => thr[t].res \in thr[t].seen

\* in fuzzy mode, a Get that was in progress while a Set on a fuzzy-equivalent
\* name changed its result, and returned the result after that Set
C13_Witness ==
  /\ fuzzy
  /\ \E t \in Threads, u \in Threads :
       /\ thr[t].op = "Get" /\ thr[t].pc = "idle"
       /\ Cardinality(thr[t].seen) = 2
       /\ thr[u].op = "Set" /\ thr[u].pc = "idle" /\ ~thr[u].err
       /\ thr[u].name # thr[t].name
       /\ Normalized(thr[u].name) = Normalized(thr[t].name)
       /\ thr[t].res = Get(cache, fuzzy, thr[t].name)

\* C14: Iterate returns an error exactly when the callback failed on a key it
\* was handed; that key is then the last one handed to the callback, the keys
\* before it are the ones a callback that never fails is handed first, and
\* without a failure the callback is handed them all.
C14_StopsAtError ==
  last.op = "Iterate" =>
    LET all == Iterate(order, cache, fuzzy, {}).out
        n   == Len(last.res)
        failed == {i \in 1..n : last.res[i][1] \in last.bad}
    IN  /\ last.err <=> failed # {}
        /\ failed \subseteq {n}
        /\ n <= Len(all) /\ last.res = SubSeq(all, 1, n)
        /\ ~last.err => n = Len(all)

\* the callback failed on the second of three live keys: two were handed to
\* it and the third was not
C14_Witness ==
  /\ last.op = "Iterate" /\ last.err
  /\ Len(last.res) = 2 /\ last.res[2][1] \in last.bad
  /\ Len(Iterate(order, cache, fuzzy, {}).out) = 3

\* the positions of the lines of the file f that hold two spaces or more, and
\* so more than two space-separated fields
BadLines(f) ==
  LET lines == ScanLines(f)
      spaces(l) == Cardinality({j \in 1..Len(l) : l[j] = " "})
  IN  {i \in 1..Len(lines) : spaces(lines[i]) >= 2}

\* C15: an Open, met by no I/O failure, of a file in which some line has more
\* than two fields returns an error that names the first such line and no
\* store, wherever that line is in the file.
C15_OpenRejectsBadLine ==
  (last.op = "Open" /\ ~last.io /\ BadLines(files[last.path]) # {}) =>
    LET bad   == BadLines(files[last.path])
        first == CHOOSE i \in bad : \A j \in bad : i <= j
    IN  /\ last.err /\ last.res = ScanLines(files[last.path])[first]
        /\ st = "none" /\ cache = EmptyCache /\ order = <<>>

\* an Open that failed on a file whose first line is a well-formed record
\* and whose second line has three fields
C15_Witness ==
  /\ last.op = "Open" /\ last.err /\ ~last.io
  /\ BadLines(files[last.path]) = {2}
  /\ st = "none"

\* C16: a successful Set leaves the log as it was with exactly one record,
\* one newline-terminated line, appended to it; Get, Iterate, Close and an
\* Open without compaction leave every file as it was.
C16_LogAppendOnly ==
  [][/\ (last'.op = "Set" /\ ~last'.err) =>
          \E n \in 1..Len(files'[path]) :
            LET new == SubSeq(files'[path], Len(files'[path]) - n + 1,
                              Len(files'[path]))
            IN  /\ files'[path] = files[path] \o new
                /\ {j \in 1..n : new[j] = "\n"} = {n}
     /\ (\/ last'.op \in {"Get", "Iterate", "Close"}
         \/ last'.op = "Open" /\ ~last'.compact) => files' = files]_vars

\* C17: while a goroutine is between Lock and Unlock in Set or Close, no
\* other goroutine is between Lock and Unlock or between RLock and RUnlock
\* of a call on the store.
C17_WritersExclusive ==
  \A t \in Threads, u \in Threads :
    (t # u /\ InWrite(t)) => (~InWrite(u) /\ ~InRead(u))

\* two goroutines inside their read sections at the same time, one in Get
\* and one in Iterate
C17_Witness ==
  \E t \in Threads, u \in Threads :
    /\ At(t, "Get", "get1") /\ At(u, "Iterate", "iter")
    /\ lock.r = {t, u}

\* C18: in every state the records of the writes applied to the order array
\* and the cache are in the log, in order, at its start; Set touches the
\* file, the order array and the cache only while it holds the lock alone;
\* and whenever a Get or an Iterate is inside its read section, and whenever
\* no Set is between its append to the order array and its return, the cache
\* is the one those logged writes give.
C18_LoggedBeforeVisible ==
  LET logged == Concat([i \in 1..Len(hist) |-> Record(hist[i][1], hist[i][2])])
      updating == \E t \in Threads : thr[t].pc \in {"set1", "set2"}
  IN  /\ Len(logged) <= Len(files[path])
      /\ SubSeq(files[path], 1, Len(logged)) = logged
      /\ order = [i \in 1..Len(hist) |-> hist[i][1]]
      /\ \A t \in Threads : InWrite(t) => (lock.w = t /\ lock.r = {})
      /\ (\E t \in Threads : InRead(t)) => ~updating
      /\ ~updating => cache = IndexOf(hist, fuzzy)

\* a Get inside its read section on the name a Set of this run wrote last:
\* the entry it is about to read has its record at the end of the log
C18_Witness ==
  \E t \in Threads :
    /\ At(t, "Get", "get1") /\ sets > 0
    /\ hist[Len(hist)] = <<thr[t].name, <<"x">> >>
    /\ cache[thr[t].name] = <<"x">>
    /\ Len(files[path]) > Len(Record(thr[t].name, <<"x">>))
    /\ SubSeq(files[path],
              Len(files[path]) - Len(Record(thr[t].name, <<"x">>)) + 1,
              Len(files[path])) = Record(thr[t].name, <<"x">>)

\* C19: once the store is closed, a Set returns an error, a Get finds
\* nothing and an Iterate returns an error, and the store stays closed under
\* every call made on it.
C19_ClosedIsTerminal ==
  [][st = "closed" =>
       /\ last'.op = "Set" => last'.err
       /\ last'.op = "Get" => ~last'.res[2]
       /\ last'.op = "Iterate" => last'.err
       /\ last'.op # "Open" => st' = "closed"]_vars

\* C20: in fuzzy mode, for every normalized form n of a written name, the
\* cache has an entry for n exactly when the most recent write among the
\* names with normalized form n carried a link, and the entry holds that link.
C20_AliasIsLatest ==
  fuzzy =>
    \A n \in {Normalized(k) : k \in Written_names} :
      LET js == {j \in 1..Len(hist) : Normalized(hist[j][1]) = n}
          j  == CHOOSE i \in js : \A i2 \in js : i2 <= i
      IN  IF hist[j][2] = <<>> THEN n \notin DOMAIN cache
          ELSE n \in DOMAIN cache /\ cache[n] = hist[j][2]

\* in fuzzy mode "a" was set to one link and then "A-" to another: the entry
\* of the normalized form "a" holds the link of "A-"
C20_Witness ==
  /\ fuzzy /\ Len(hist) >= 2
  /\ hist[Len(hist)] = << <<"A", "-">>, <<"y">> >>
  /\ \E i \in 1..(Len(hist) - 1) : hist[i] = << <<"a">>, <<"x">> >>
  /\ cache[<<"a">>] = <<"y">>

\* C21 as stated: in fuzzy mode Get(k) returns (L, true) whenever the most
\* recent write of k itself carried the non-empty link L, whatever was
\* written afterwards on other names with the same normalized form.
C21_Original ==
  fuzzy =>
    \A k \in Written_names :
      LastLink(k) # <<>> => Get(cache, fuzzy, k) = <<LastLink(k), TRUE>>

\* C21 amended: in fuzzy mode Get(k) returns (L, true) whenever the most
\* recent write of k itself carried the non-empty link L and no later write
\* was made on a different name whose normalized form is the string k.
C21_ExactFirst ==
  fuzzy =>
    \A k \in Written_names :
      (LastLink(k) # <<>> /\ NotAliased(k))
        => /\ Get(cache, fuzzy, k) = <<LastLink(k), TRUE>>
           /\ (last.op = "Get" /\ last.name = k) => last.res = <<LastLink(k), TRUE>>

\* in fuzzy mode "A-" was set to a link, then "a" was written with another
\* link or as a tombstone, and Get("A-") returned the link of "A-"
C21_Witness ==
  /\ fuzzy
  /\ last.op = "Get" /\ last.name = <<"A", "-">>
  /\ LastWrite(<<"A", "-">>) > 0 /\ LastLink(<<"A", "-">>) # <<>>
  /\ last.res = <<LastLink(<<"A", "-">>), TRUE>>
  /\ \E j \in (LastWrite(<<"A", "-">>) + 1)..Len(hist) :
       hist[j][1] = <<"a">> /\ hist[j][2] # LastLink(<<"A", "-">>)

\* C22: an Open with compaction that returns a store returns one in which
\* Get gives, for every name, what it gives in the store a plain Open of the
\* original file returns, and leaves a log that holds one record, with a
\* link, for each of its names and nothing else.
C22_CompactOpenEquivalent ==
  [][(last'.op = "Open" /\ last'.compact /\ ~last'.err) =>
       LET plain == Replay(files[last'.path], fuzzy)
           lines == ScanLines(files'[last'.path])
           field(i) == Split(lines[i], " ")
       IN  /\ ~plain.err
           /\ \A k \in GetNames \cup FileNames :
                Get(cache', fuzzy, k) = Get(plain.cache, fuzzy, k)
           /\ \A i \in 1..Len(lines) :
                /\ Len(field(i)) = 2 /\ field(i)[2] # <<>>
                /\ \A j \in 1..Len(lines) : field(j)[1] = field(i)[1] => j = i]_vars

\* a reader is inside a call on the store, or has returned from one
Reading(t) == thr[t].op \in {"Get", "Iterate"}

C24_Original ==
  [][\A t \in Threads :
       thr[t].outer =>
         /\ t \in lock.r
         /\ thr'[t].outer /\ thr'[t].pc # "idle"]_vars

\* C24 amended: while the callback of Iterate runs, Iterate holds its read
\* lock; a Set that the callback makes on the store never gets past its Lock
\* and never returns; a Get that the callback makes while another goroutine
\* is waiting in Lock never gets past its RLock, and that goroutine keeps
\* waiting.
C24_CallbackDeadlock ==
  [][\A t \in Threads :
       thr[t].outer =>
         /\ t \in lock.r
         /\ thr[t].op = "Set" =>
              thr'[t].outer /\ thr'[t].op = "Set" /\ thr'[t].pc \in {"lock", "wait"}
         /\ (thr[t].op = "Get" /\ thr[t].pc = "lock" /\ lock.w # 0) =>
              thr'[t] = thr[t] /\ lock' = lock]_vars

\* a Set made by the callback waits for the readers to leave, of which its
\* own Iterate is one, and the other goroutine waits for that Set
C24_Witness ==
  \E t \in Threads, u \in Threads :
    /\ thr[t].outer /\ At(t, "Set", "wait")
    /\ lock.w = t /\ lock.r = {t}
    /\ u # t /\ thr[u].pc = "lock"

\* C25: every file handle a call of the store opens is, when the call
\* returns, closed or held by the store the call returned (which Close
\* closes), and no call other than Close closes the handle of a store's log.
C25_HandleClosedOnce ==
  /\ last.leaked = 0
  /\ last.closed => last.op = "Close"

\* C26: when the Set of an UPDATE request writes, holding the exclusive lock,
\* the name it writes has a live mapping.
C26_UpdateOnlyExisting ==
  \A t \in Threads :
    (thr[t].req = "UPDATE" /\ At(t, "Set", "write")) =>
      Get(cache, fuzzy, thr[t].name)[2]

\* C27: a log written only by successful Sets on an initially empty store is
\* accepted by Open, and its replay reads back the keys and links of those
\* Sets, in the order they were made.
C27_SetLogReplays ==
  (st = "open" /\ opens = 0 /\ path = "log") =>
    LET r == Replay(files["log"], fuzzy)
    IN  ~r.err /\ r.hist = hist

\* k and q are unrelated: different keys with fuzzy mode off, keys of
\* different normalized forms with fuzzy mode on
Unrelated(q, k) ==
  IF fuzzy THEN Normalized(q) # Normalized(k) ELSE q # k

\* C28: a Set on key k, successful or failed, leaves the Get result of every
\* key unrelated to k as it was.
C28_SetFrame ==
  [][last'.op = "Set" =>
       \A q \in GetNames :
         Unrelated(q, last'.name) =>
           Get(cache', fuzzy, q) = Get(cache, fuzzy, q)]_vars

\* a successful Set has changed what Get returns for its key while an
\* unrelated key, which differs from it only in case and punctuation when
\* fuzzy mode is off, has a live mapping
C28_Witness ==
  /\ last.op = "Set" /\ ~last.err /\ last.link # <<>>
  /\ Get(cache, fuzzy, last.name) = <<last.link, TRUE>>
  /\ \E q \in GetNames :
       /\ Unrelated(q, last.name)
       /\ Get(cache, fuzzy, q)[2]
       /\ Get(cache, fuzzy, q)[1] # last.link
       /\ ~fuzzy => Normalized(q) = Normalized(last.name)

\* the sequences of at most two Sets that follow a Dump
LaterSets ==
  LET one == Names \X Links
  IN  {<<>>} \cup {<<x>> : x \in one} \cup {<<x, y>> : x \in one, y \in one}

\* the store m after the successful Sets of q, the first of them first
AfterSets(m, q) ==
  IF q = <<>> THEN m
  ELSE LET m1 == SetMemory(m.cache, m.order, fuzzy, q[1][1], q[1][2], FALSE)
       IN  IF Len(q) = 1 THEN m1
           ELSE SetMemory(m1.cache, m1.order, fuzzy, q[2][1], q[2][2], FALSE)

\* every Get returns the same on the stores m and n, and Iterate delivers
\* the same pairs in the same order
SameObservations(m, n) ==
  /\ \A k \in GetNames : Get(m.cache, fuzzy, k) = Get(n.cache, fuzzy, k)
  /\ Iterate(m.order, m.cache, fuzzy, {}).out
       = Iterate(n.order, n.cache, fuzzy, {}).out

\* C29: the file a successful Dump has written opens, with the same fuzzy
\* setting, to a store on which every sequence of later Sets is followed by
\* the same Get results and the same Iterate deliveries as on the store
\* that was dumped.
C29_DumpReopenEquivalent ==
  (HasStore /\ last.op = "Dump" /\ ~last.err) =>
    LET r == Replay(files[last.path], fuzzy)
    IN  /\ ~r.err
        /\ \A q \in LaterSets :
             SameObservations(AfterSets([cache |-> cache, order |-> order], q),
                              AfterSets([cache |-> r.cache, order |-> r.order], q))

\* C30: an Open with compaction whose Dump step fails returns the error and
\* leaves at its path a log that replays to the Index the log replayed to
\* before the call.
C30_FailedCompactionKeepsLog ==
  [][(last'.op = "Open" /\ last'.compact /\ last'.closed /\ last'.io) =>
       LET before == Replay(files[last'.path], fuzzy)
           after  == Replay(files'[last'.path], fuzzy)
       IN  /\ last'.err
           /\ ~after.err
           /\ after.cache = before.cache]_vars

====
